---- MODULE Spec2Model ----
(***************************************************************************)
(* embedded-nal-plus: StackAndSocket, a pairing of a TcpClientStack and    *)
(* one of its sockets, with pass-through connect / is_connected / receive  *)
(* / send and a ufmt::uWrite::write_str that drains a string through the   *)
(* stack's non-blocking send.                                              *)
(*                                                                         *)
(* The TcpClientStack is a trait of the embedded-nal crate; what one of    *)
(* its implementations answers to a call is an input of the model (the     *)
(* parameter o of the Stack_* operators), drawn with \E from every answer  *)
(* its documented contract allows.  The stack modelled here is the stub of *)
(* a differential test: it keeps, per socket, whether it is connected, and *)
(* logs the calls it receives during one method of the pairing.            *)
(***************************************************************************)
EXTENDS Integers, Sequences, FiniteSets, TLC

VARIABLES
    pairing,   \* the StackAndSocket in scope, or NoPairing
    given,     \* the socket reference the caller handed to new / with_socket
    stack,     \* the stack as used through the pairing
    dstack,    \* a twin stack, used by direct calls with the same answers
    pc,        \* "idle", or "send": inside write_str, about to attempt a send
    message,   \* write_str: message.as_bytes()
    cursor,    \* write_str: cursor
    op,        \* the method invoked last on the pairing, with its argument
    ret,       \* what that method returned (NoRet while write_str runs)
    dret,      \* what the direct stack call returned
    buf,       \* the caller's receive buffer after the call through the pairing
    dbuf       \* the caller's receive buffer after the direct call

vars == <<pairing, given, stack, dstack, pc, message, cursor, op, ret, dret, buf, dbuf>>

---------------------------------------------------------------------------
(* Bounds of the model *)

MaxLen == 2     \* characters in a generated message (Hello is one message more)
MaxLog == 4     \* calls the stub stack's log keeps per method invocation
MaxBuf == 1     \* bytes in a caller's send or receive buffer

---------------------------------------------------------------------------
(* Values *)

Sockets == {"s1", "s2"}
Remotes == {<<10, 80>>, <<11, 443>>}
Errors == {1, 2}              \* values of TCS::Error
Chars == {104, 233}           \* 'h' (one byte of UTF-8), U+00E9 (two bytes)
Hello == <<104, 101, 108, 108, 111>>
TxBytes == {104, 101}
NoPairing == [tcp_stack |-> "none", socket |-> "none"]
Unit == <<>>

Ok(v) == [kind |-> "ok", val |-> v]
Err(e) == [kind |-> "err", val |-> e]
WouldBlock == [kind |-> "wb", val |-> Unit]
NoRet == [kind |-> "none", val |-> Unit]

SeqsUpTo(S, n) == UNION {[1..k -> S] : k \in 0..n}

Strings == SeqsUpTo(Chars, MaxLen) \cup {Hello}
Buffers == SeqsUpTo(TxBytes, MaxBuf)
RxBuffers == {[i \in 1..k |-> 0] : k \in 0..MaxBuf}

(* UTF-8 of one character below U+0800 *)
Utf8(c) == IF c < 128 THEN <<c>> ELSE <<192 + (c \div 64), 128 + (c % 64)>>

RECURSIVE as_bytes(_)
as_bytes(s) == IF s = <<>> THEN <<>> ELSE Utf8(Head(s)) \o as_bytes(Tail(s))

---------------------------------------------------------------------------
(* The stub TcpClientStack *)

(* One logged call: the operation, the socket and argument it was given,   *)
(* and the value the stack returned for it.                                *)
Call(name, sock, arg, reply) == [op |-> name, sock |-> sock, arg |-> arg, reply |-> reply]

Record(log, c) == IF Len(log) < MaxLog THEN Append(log, c) ELSE log

FreshStack == [conn |-> [s \in Sockets |-> FALSE], calls |-> <<>>]

ConnectReplies == {Ok(Unit), WouldBlock} \cup {Err(e) : e \in Errors}
IsConnectedReplies == {Ok(Unit)} \cup {Err(e) : e \in Errors}
ReceiveReplies(buffer) ==
    {Ok(d) : d \in SeqsUpTo(TxBytes, Len(buffer))} \cup {WouldBlock} \cup {Err(e) : e \in Errors}
(* send returns "the number of bytes written (which may be less than       *)
(* buffer.len())": a count from 0 to the length of the buffer              *)
SendReplies(buffer) ==
    {Ok(n) : n \in 0..Len(buffer)} \cup {WouldBlock} \cup {Err(e) : e \in Errors}

Stack_connect(st, sock, remote, o) ==
    [st  |-> [st EXCEPT !.conn[sock] = IF o.kind = "ok" THEN TRUE ELSE @,
                        !.calls = Record(@, Call("connect", sock, remote, o))],
     ret |-> o,
     buf |-> <<>>]

Stack_is_connected(st, sock, o) ==
    LET v == IF o.kind = "ok" THEN Ok(st.conn[sock]) ELSE o IN
    [st  |-> [st EXCEPT !.calls = Record(@, Call("is_connected", sock, <<>>, v))],
     ret |-> v,
     buf |-> <<>>]

Stack_receive(st, sock, buffer, o) ==
    LET v == IF o.kind = "ok" THEN Ok(Len(o.val)) ELSE o IN
    [st  |-> [st EXCEPT !.calls = Record(@, Call("receive", sock, buffer, v))],
     ret |-> v,
     buf |-> IF o.kind = "ok"
             THEN o.val \o SubSeq(buffer, Len(o.val) + 1, Len(buffer))
             ELSE buffer]

Stack_send(st, sock, buffer, o) ==
    [st  |-> [st EXCEPT !.calls = Record(@, Call("send", sock, buffer, o))],
     ret |-> o,
     buf |-> <<>>]

---------------------------------------------------------------------------
(* StackAndSocket *)

(* Variants of the definitions below, each with one slip a write loop or a *)
(* forwarding method plausibly has.  The properties at the end of the      *)
(* module are checked against them too, and each must then fail.           *)

(* the slice forgotten: every attempt sends the message from its start *)
Suffix_whole(msg, cur) == msg

(* a forwarding send that retries by itself when the stack would block *)
send_retrying(self, st, buffer, o) ==
    LET first == Stack_send(st, self.socket, buffer, o) IN
    IF o.kind = "wb" THEN Stack_send(first.st, self.socket, buffer, o) ELSE first

(* a connect that blocks until the connection is made *)
connect_blocking(self, st, remote, o) ==
    LET first == Stack_connect(st, self.socket, remote, o) IN
    IF o.kind = "wb" THEN Stack_connect(first.st, self.socket, remote, Ok(Unit)) ELSE first

(* the loop tested with cursor + 1 < len: it stops one byte early *)
step_stops_early(msg, cur, v) ==
    CASE v.kind = "wb"  -> [pc |-> "send", cursor |-> cur, ret |-> NoRet]
      [] v.kind = "err" -> [pc |-> "idle", cursor |-> cur, ret |-> Err(v.val)]
      [] OTHER          ->
            IF cur + v.val + 1 < Len(msg)
            THEN [pc |-> "send", cursor |-> cur + v.val, ret |-> NoRet]
            ELSE [pc |-> "idle", cursor |-> cur + v.val, ret |-> Ok(Unit)]

(* no loop: one accepted send ends write_str *)
step_single_send(msg, cur, v) ==
    CASE v.kind = "wb"  -> [pc |-> "send", cursor |-> cur, ret |-> NoRet]
      [] v.kind = "err" -> [pc |-> "idle", cursor |-> cur, ret |-> Err(v.val)]
      [] OTHER          -> [pc |-> "idle", cursor |-> cur + v.val, ret |-> Ok(Unit)]

(* the error of a send dropped: the loop goes on *)
step_ignores_error(msg, cur, v) ==
    CASE v.kind = "wb"  -> [pc |-> "send", cursor |-> cur, ret |-> NoRet]
      [] v.kind = "err" -> [pc |-> "send", cursor |-> cur, ret |-> NoRet]
      [] OTHER          ->
            IF cur + v.val < Len(msg)
            THEN [pc |-> "send", cursor |-> cur + v.val, ret |-> NoRet]
            ELSE [pc |-> "idle", cursor |-> cur + v.val, ret |-> Ok(Unit)]

(* nb::block! left out: WouldBlock leaves write_str like an error *)
step_without_block(msg, cur, v) ==
    CASE v.kind = "wb"  -> [pc |-> "idle", cursor |-> cur, ret |-> WouldBlock]
      [] v.kind = "err" -> [pc |-> "idle", cursor |-> cur, ret |-> Err(v.val)]
      [] OTHER          ->
            IF cur + v.val < Len(msg)
            THEN [pc |-> "send", cursor |-> cur + v.val, ret |-> NoRet]
            ELSE [pc |-> "idle", cursor |-> cur + v.val, ret |-> Ok(Unit)]

(* WouldBlock taken for "nothing more to do": write_str returns Ok *)
step_gives_up(msg, cur, v) ==
    CASE v.kind = "wb"  -> [pc |-> "idle", cursor |-> cur, ret |-> Ok(Unit)]
      [] v.kind = "err" -> [pc |-> "idle", cursor |-> cur, ret |-> Err(v.val)]
      [] OTHER          ->
            IF cur + v.val < Len(msg)
            THEN [pc |-> "send", cursor |-> cur + v.val, ret |-> NoRet]
            ELSE [pc |-> "idle", cursor |-> cur + v.val, ret |-> Ok(Unit)]

(* Ok(0) taken for the end of the stream, as write_all does *)
step_zero_ends(msg, cur, v) ==
    CASE v.kind = "wb"  -> [pc |-> "send", cursor |-> cur, ret |-> NoRet]
      [] v.kind = "err" -> [pc |-> "idle", cursor |-> cur, ret |-> Err(v.val)]
      [] OTHER          ->
            IF cur + v.val < Len(msg) /\ v.val > 0
            THEN [pc |-> "send", cursor |-> cur + v.val, ret |-> NoRet]
            ELSE [pc |-> "idle", cursor |-> cur + v.val, ret |-> Ok(Unit)]

(* cursor += n left out *)
step_no_advance(msg, cur, v) ==
    CASE v.kind = "wb"  -> [pc |-> "send", cursor |-> cur, ret |-> NoRet]
      [] v.kind = "err" -> [pc |-> "idle", cursor |-> cur, ret |-> Err(v.val)]
      [] OTHER          ->
            IF cur < Len(msg)
            THEN [pc |-> "send", cursor |-> cur, ret |-> NoRet]
            ELSE [pc |-> "idle", cursor |-> cur, ret |-> Ok(Unit)]

new(tcp_stack, socket) == [tcp_stack |-> tcp_stack, socket |-> socket]

with_socket(self, socket) == new(self, socket)

connect(self, st, remote, o) == Stack_connect(st, self.socket, remote, o)

is_connected(self, st, o) == Stack_is_connected(st, self.socket, o)

receive(self, st, buffer, o) == Stack_receive(st, self.socket, buffer, o)

send(self, st, buffer, o) == Stack_send(st, self.socket, buffer, o)

(* &message[cursor..] *)
Suffix(msg, cur) == SubSeq(msg, cur + 1, Len(msg))

(* One turn of write_str's loop, given the value v of the send:            *)
(* nb::block! evaluates the send again on WouldBlock, `?` returns the      *)
(* error, and otherwise cursor += n and the loop condition is tested.      *)
write_str_step(msg, cur, v) ==
    CASE v.kind = "wb"  -> [pc |-> "send", cursor |-> cur, ret |-> NoRet]
      [] v.kind = "err" -> [pc |-> "idle", cursor |-> cur, ret |-> Err(v.val)]
      [] OTHER          ->
            IF cur + v.val < Len(msg)
            THEN [pc |-> "send", cursor |-> cur + v.val, ret |-> NoRet]
            ELSE [pc |-> "idle", cursor |-> cur + v.val, ret |-> Ok(Unit)]

(* Entering write_str: as_bytes, cursor = 0, the first test of the loop    *)
write_str_enter(s) ==
    IF 0 < Len(as_bytes(s))
    THEN [pc |-> "send", cursor |-> 0, ret |-> NoRet]
    ELSE [pc |-> "idle", cursor |-> 0, ret |-> Ok(Unit)]

---------------------------------------------------------------------------
(* Actions.  A method of the pairing borrows it exclusively (&mut self),   *)
(* so no other method starts while write_str is inside its loop.  The log  *)
(* of the stub is emptied when a method starts: it then holds the calls of *)
(* that method alone.                                                      *)

Clear(st) == [st EXCEPT !.calls = <<>>]

Init ==
    /\ pairing = NoPairing
    /\ given = "none"
    /\ stack = FreshStack
    /\ dstack = FreshStack
    /\ pc = "idle"
    /\ message = <<>>
    /\ cursor = 0
    /\ op = [name |-> "none", arg |-> <<>>]
    /\ ret = NoRet
    /\ dret = NoRet
    /\ buf = <<>>
    /\ dbuf = <<>>

Construct(p, s, name) ==
    /\ pc = "idle"
    /\ pairing' = p
    /\ given' = s
    /\ stack' = Clear(stack)
    /\ dstack' = Clear(dstack)
    /\ op' = [name |-> name, arg |-> <<>>]
    /\ message' = <<>>
    /\ cursor' = 0
    /\ ret' = NoRet
    /\ dret' = NoRet
    /\ buf' = <<>>
    /\ dbuf' = <<>>
    /\ UNCHANGED pc

New == \E s \in Sockets : Construct(new("stack", s), s, "new")

WithSocket == \E s \in Sockets : Construct(with_socket("stack", s), s, "with_socket")

(* A pass-through method, and beside it the same call made on the twin     *)
(* stack directly, with the socket the caller holds and the same answer.   *)
PassThrough(name, arg, viaPairing, direct) ==
    /\ pc = "idle"
    /\ pairing # NoPairing
    /\ op' = [name |-> name, arg |-> arg]
    /\ stack' = viaPairing.st
    /\ ret' = viaPairing.ret
    /\ buf' = viaPairing.buf
    /\ dstack' = direct.st
    /\ dret' = direct.ret
    /\ dbuf' = direct.buf
    /\ message' = <<>>
    /\ cursor' = 0
    /\ UNCHANGED <<pairing, given, pc>>

Connect ==
    \E remote \in Remotes, o \in ConnectReplies :
        PassThrough("connect", remote,
                    connect(pairing, Clear(stack), remote, o),
                    Stack_connect(Clear(dstack), given, remote, o))

IsConnected ==
    \E o \in IsConnectedReplies :
        PassThrough("is_connected", <<>>,
                    is_connected(pairing, Clear(stack), o),
                    Stack_is_connected(Clear(dstack), given, o))

Receive ==
    \E buffer \in RxBuffers : \E o \in ReceiveReplies(buffer) :
        PassThrough("receive", buffer,
                    receive(pairing, Clear(stack), buffer, o),
                    Stack_receive(Clear(dstack), given, buffer, o))

Send ==
    \E buffer \in Buffers : \E o \in SendReplies(buffer) :
        PassThrough("send", buffer,
                    send(pairing, Clear(stack), buffer, o),
                    Stack_send(Clear(dstack), given, buffer, o))

WriteStr ==
    \E s \in Strings :
        LET e == write_str_enter(s) IN
        /\ pc = "idle"
        /\ pairing # NoPairing
        /\ op' = [name |-> "write_str", arg |-> s]
        /\ message' = as_bytes(s)
        /\ cursor' = e.cursor
        /\ pc' = e.pc
        /\ ret' = e.ret
        /\ dret' = NoRet
        /\ stack' = Clear(stack)
        /\ dstack' = Clear(dstack)
        /\ buf' = <<>>
        /\ dbuf' = <<>>
        /\ UNCHANGED <<pairing, given>>

(* One evaluation of self.tcp_stack.send(self.socket, &message[cursor..])  *)
(* inside nb::block!, answered o by the stack, and what the loop does next *)
Attempt(o) ==
    LET r == send(pairing, stack, Suffix(message, cursor), o)
        d == Stack_send(dstack, given, Suffix(message, cursor), o)
        n == write_str_step(message, cursor, r.ret)
    IN  /\ pc = "send"
        /\ stack' = r.st
        /\ dstack' = d.st
        /\ cursor' = n.cursor
        /\ pc' = n.pc
        /\ ret' = n.ret
        /\ UNCHANGED <<pairing, given, message, op, dret, buf, dbuf>>

AttemptOk == \E o \in {r \in SendReplies(Suffix(message, cursor)) : r.kind = "ok"} : Attempt(o)

AttemptWouldBlock == Attempt(WouldBlock)

AttemptErr == \E e \in Errors : Attempt(Err(e))

(* A send that accepts at least one byte                                    *)
AttemptProgress == \E n \in 1..Len(Suffix(message, cursor)) : Attempt(Ok(n))

(* The log has room for the next call *)
LogRoom == Len(stack.calls) < MaxLog

(* Every method in any order, the stack answering anything; each call of   *)
(* the stack is logged, no more than MaxLog sends per write_str.           *)
Next ==
    \/ New
    \/ WithSocket
    \/ Connect
    \/ IsConnected
    \/ Receive
    \/ Send
    \/ WriteStr
    \/ LogRoom /\ AttemptOk
    \/ LogRoom /\ AttemptWouldBlock
    \/ LogRoom /\ AttemptErr

Spec == Init /\ [][Next]_vars

(* write_str against a stack that never fails, accepts between 1 byte and  *)
(* the whole buffer when it accepts, and does not answer WouldBlock for    *)
(* ever: a send that is retried is eventually accepted.                    *)
LiveNext ==
    \/ New
    \/ WithSocket
    \/ WriteStr
    \/ AttemptProgress
    \/ AttemptWouldBlock

LiveSpec == Init /\ [][LiveNext]_vars /\ WF_vars(AttemptProgress)

---------------------------------------------------------------------------
(* What the properties read *)

Calls == stack.calls
InWriteStr == op.name = "write_str"
ReturnedOk == InWriteStr /\ pc = "idle" /\ ret.kind = "ok"
IsOk(c) == c.reply.kind = "ok"
IsWouldBlock(c) == c.reply.kind = "wb"
IsErr(c) == c.reply.kind = "err"
IsZero(c) == IsOk(c) /\ c.reply.val = 0

Min(a, b) == IF a < b THEN a ELSE b

(* The bytes of its buffer a call accepted *)
Accepted(c) == IF IsOk(c) THEN SubSeq(c.arg, 1, c.reply.val) ELSE <<>>

RECURSIVE Wire(_)
Wire(log) == IF log = <<>> THEN <<>> ELSE Accepted(Head(log)) \o Wire(Tail(log))

RECURSIVE SumCounts(_)
SumCounts(log) ==
    IF log = <<>> THEN 0
    ELSE (IF IsOk(Head(log)) THEN Head(log).reply.val ELSE 0) + SumCounts(Tail(log))

CeilDiv(a, b) == (a + b - 1) \div b

(* The call after call i sends the same buffer again; if call i is the     *)
(* last, write_str is still in its loop, about to send that buffer.        *)
SameSuffixAgain(i) ==
    IF i < Len(Calls)
    THEN Calls[i + 1].arg = Calls[i].arg
    ELSE pc = "send" /\ ret = NoRet /\ Suffix(message, cursor) = Calls[i].arg

---------------------------------------------------------------------------
(* C1: when write_str returns Ok, the byte ranges the stack accepted,       *)
(* concatenated in call order, are exactly the bytes of the message: each  *)
(* byte once, in order, whatever number of bytes each send accepted.       *)
(* Every call is a send on the held socket.                                *)
C1_AcceptedBytesAreTheMessage ==
    ReturnedOk =>
        /\ Wire(Calls) = as_bytes(op.arg)
        /\ \A i \in 1..Len(Calls) : Calls[i].op = "send" /\ Calls[i].sock = given

(* A success in four calls: a partial send, a would-block, two more sends  *)
C1_Witness ==
    /\ ReturnedOk
    /\ Len(message) >= 3
    /\ Len(Calls) = 4
    /\ \E i \in 1..Len(Calls) : IsWouldBlock(Calls[i])
    /\ Cardinality({i \in 1..Len(Calls) : IsOk(Calls[i]) /\ Calls[i].reply.val >= 1}) = 3

(* C2: a send that fails is the last send of write_str, and write_str has  *)
(* returned exactly the stack's error, which carries no count.             *)
C2_ErrorReturnedUnchanged ==
    InWriteStr =>
        \A j \in 1..Len(Calls) :
            IsErr(Calls[j]) =>
                /\ j = Len(Calls)
                /\ pc = "idle"
                /\ ret = Calls[j].reply
                /\ ret = Err(Calls[j].reply.val)
                /\ DOMAIN ret = {"kind", "val"}

(* An error on the third attempt, after some but not all bytes were sent   *)
C2_Witness ==
    /\ InWriteStr
    /\ Len(Calls) = 3
    /\ IsErr(Calls[3])
    /\ SumCounts(Calls) >= 1
    /\ SumCounts(Calls) < Len(message)
    /\ ret = Err(2)

(* C3: after a would-block the next attempt sends the same suffix (the     *)
(* cursor has not moved) and write_str has not returned; after an accepted *)
(* send the next attempt starts where the accepted bytes end, so a send    *)
(* that would block N times and then succeeds is attempted N + 1 times;    *)
(* write_str never returns the would-block signal.                         *)
C3_WouldBlockRetriesSameSuffix ==
    InWriteStr =>
        /\ ret.kind # "wb"
        /\ \A i \in 1..Len(Calls) :
            /\ IsWouldBlock(Calls[i]) => SameSuffixAgain(i)
            /\ (IsOk(Calls[i]) /\ i < Len(Calls)) =>
                   Calls[i + 1].arg = Suffix(Calls[i].arg, Calls[i].reply.val)

(* Two would-blocks, then the send is accepted, then the next chunk *)
C3_Witness ==
    /\ InWriteStr
    /\ Len(Calls) = 4
    /\ IsWouldBlock(Calls[1])
    /\ IsWouldBlock(Calls[2])
    /\ IsOk(Calls[3]) /\ Calls[3].reply.val >= 1
    /\ Calls[4].arg # Calls[3].arg
    /\ ReturnedOk

(* C4: as long as every send of a non-empty message has answered           *)
(* would-block, write_str has not returned and its cursor is 0, however    *)
(* many attempts there were.                                               *)
C4_AlwaysWouldBlockNeverReturns ==
    (InWriteStr /\ message # <<>> /\ \A i \in 1..Len(Calls) : IsWouldBlock(Calls[i])) =>
        pc = "send" /\ ret = NoRet /\ cursor = 0

(* MaxLog would-blocks in a row, and write_str is still trying *)
C4_Witness ==
    /\ InWriteStr
    /\ Len(Calls) = MaxLog
    /\ \A i \in 1..Len(Calls) : IsWouldBlock(Calls[i])
    /\ pc = "send"

C6_AtLeastCeilSends ==
    ReturnedOk =>
        \A k \in 1..(Len(message) + 1) :
            /\ (\A i \in 1..Len(Calls) : IsOk(Calls[i]) => Calls[i].reply.val <= k)
                   => Len(Calls) >= CeilDiv(Len(message), k)
            /\ (\A i \in 1..Len(Calls) :
                    IsOk(Calls[i]) /\ Calls[i].reply.val = Min(k, Len(Calls[i].arg)))
                   => Len(Calls) = CeilDiv(Len(message), k)

(* k = 4, "hello": two sends, accepting "hell" and then "o" *)
C6_Witness ==
    /\ ReturnedOk
    /\ op.arg = Hello
    /\ Calls = <<Call("send", given, Hello, Ok(4)), Call("send", given, <<111>>, Ok(1))>>
    /\ cursor = 5

(* C7: connect, is_connected, receive and send each make one call of the   *)
(* stack, the operation of the same name, on the held socket, with the     *)
(* caller's argument, and return what that call returned.                  *)
C7_PassThroughOneCall ==
    (op.name \in {"connect", "is_connected", "receive", "send"}) =>
        /\ Len(Calls) = 1
        /\ Calls[1].op = op.name
        /\ Calls[1].sock = pairing.socket
        /\ Calls[1].arg = op.arg
        /\ ret = Calls[1].reply

(* A send the stack would block on: one call, the signal handed back *)
C7_Witness ==
    /\ op.name = "send"
    /\ op.arg # <<>>
    /\ ret.kind = "wb"
    /\ Len(Calls) = 1

(* C8: used through a pairing or called directly with the same socket, the *)
(* stack sees the same calls, ends in the same state and returns the same  *)
(* values; the pairing holds the two references it was given and nothing   *)
(* else, and constructing it calls nothing.                                *)
C8_SameAsDirectCalls ==
    /\ stack = dstack
    /\ buf = dbuf
    /\ ~InWriteStr => ret = dret
    /\ pairing # NoPairing =>
           pairing = [tcp_stack |-> "stack", socket |-> given]
    /\ op.name \in {"new", "with_socket"} => Calls = <<>> /\ ret = NoRet

(* Connected through the pairing built by with_socket or new on s2, then   *)
(* asked: the answer of the stack's own state comes back                   *)
C8_Witness ==
    /\ op.name = "is_connected"
    /\ given = "s2"
    /\ ret.kind = "ok"
    /\ ret.val = TRUE
    /\ ~stack.conn["s1"]

(* C9: after a send that accepted 0 bytes the next attempt sends the same  *)
(* suffix and write_str has not returned: as long as every send of a       *)
(* non-empty message has returned Ok(0), write_str is in its loop with     *)
(* cursor 0.                                                               *)
C9_ZeroBytesSentAgain ==
    InWriteStr =>
        /\ \A i \in 1..Len(Calls) : IsZero(Calls[i]) => SameSuffixAgain(i)
        /\ (message # <<>> /\ \A i \in 1..Len(Calls) : IsZero(Calls[i])) =>
               pc = "send" /\ ret = NoRet /\ cursor = 0

(* MaxLog sends of 0 bytes, no would-block among them, still looping *)
C9_Witness ==
    /\ InWriteStr
    /\ Len(Calls) = MaxLog
    /\ \A i \in 1..Len(Calls) : IsZero(Calls[i])
    /\ pc = "send"

(* C10: against a stack that never fails, accepts between 1 byte and the   *)
(* whole buffer, and does not would-block for ever, a write_str that is in *)
(* its loop eventually returns Ok; write_str of the empty string has       *)
(* returned Ok without a send.                                             *)
C10_EventuallyReturnsOk ==
    /\ [](InWriteStr /\ message = <<>> => pc = "idle" /\ ret.kind = "ok" /\ Calls = <<>>)
    /\ (pc = "send") ~> (pc = "idle" /\ InWriteStr /\ ret.kind = "ok")

(* Returned Ok after would-blocks and partial sends *)
C10_Witness ==
    /\ ReturnedOk
    /\ Len(message) >= 3
    /\ cursor = Len(message)
    /\ IsWouldBlock(Calls[1])
    /\ IsWouldBlock(Calls[2])
    /\ Len(Calls) = 4

====
